---- MODULE Spec2Model ----
(***************************************************************************)
(* Blog API (FastAPI + SQLAlchemy): users, posts, comments.                *)
(*                                                                         *)
(* Every handler that writes is modelled in two steps, the way its code    *)
(* runs against the database: a read step (authentication, the existence   *)
(* and ownership queries, the construction of the pending row) and the     *)
(* db.commit() step, where the database applies the write under the        *)
(* constraints the schema declares (primary keys, the unique email, the    *)
(* foreign keys) and the handler shapes its response.  Requests of         *)
(* different workers interleave between the two steps.  A handler that     *)
(* only reads is one step.                                                 *)
(***************************************************************************)
EXTENDS Integers, Sequences, FiniteSets, TLC

\* ---------------------------------------------------------------- bounds
MaxUsers == 2       \* uuid4 values drawn for users
MaxPosts == 1       \* uuid4 values drawn for posts
MaxComments == 1    \* uuid4 values drawn for comments
MaxTicks == 1       \* clock advances

\* ------------------------------------------------------ program constants
ACCESS_TOKEN_EXPIRE_MINUTES == 1440
HTTP_200 == 200
HTTP_201 == 201
HTTP_400 == 400
HTTP_401 == 401
HTTP_403 == 403
HTTP_404 == 404
HTTP_500 == 500

\* Clock advances, in minutes: a short one, and one that outlasts every
\* token issued before it.
Minute == {1}
Lifetime == {ACCESS_TOKEN_EXPIRE_MINUTES + 1}

\* --------------------------------------------------------- input domains
NULL == "NULL"                       \* Python None / SQL NULL
Workers == {"w1", "w2"}              \* concurrently served requests
Emails == {"a@x.com", "b@x.com"}
RegPasswords == {"secret1"}          \* passwords users register with
Passwords == {"secret1", "secret2"}  \* passwords tried at login
RegNames == {"Ann"}
NewNames == {"Bob"}
Pictures == {"pic1"}
Salts == {"s1"}
Titles == {"Hello"}
NewTitles == {"Hi"}
Contents == {"World"}
NewContents == {"Moon"}
Excerpts == {"ex1"}
Categories == {"cat1"}
CommentTexts == {"nice"}
NewCommentTexts == {"great"}

UserIds == 1..MaxUsers
PostIds == 1..MaxPosts
CommentIds == 1..MaxComments

VARIABLES
    users,        \* table users:    id -> row
    posts,        \* table posts:    id -> row
    comments,     \* table comments: id -> row
    txn,          \* per worker: the request between its read step and its commit
    resp,         \* the response produced by the last step (NoResp if none)
    issued,       \* the tokens the server has returned to clients
    now,          \* datetime.utcnow(), in minutes
    ticks,        \* how many times the clock was advanced
    secret_key,   \* settings.SECRET_KEY
    uuids         \* how many uuid4 values were drawn, per table

vars == <<users, posts, comments, txn, resp, issued, now, ticks, secret_key, uuids>>
data == <<users, posts, comments>>
clock == <<now, ticks>>

Idle == [op |-> "idle"]
NoResp == [op |-> "none", status |-> 0]
NoToken == [sub |-> 0, exp |-> 0, sig |-> "absent"]

\* ------------------------------------------------------ credential service
\* passlib hash: the salt is embedded in the output.
get_password_hash(password, salt) == [alg |-> "bcrypt", salt |-> salt, digest |-> <<salt, password>>]

verify_password(password, hashed) == hashed.digest = <<hashed.salt, password>>

\* JWT: subject, expiry, and a signature that names the key it was made with.
create_access_token(sub, key, t) == [sub |-> sub, exp |-> t + ACCESS_TOKEN_EXPIRE_MINUTES, sig |-> key]

\* The subject of a token, or 0 for a token that is absent, forged or expired.
verify_token(tok, key, t) == IF tok.sig = key /\ tok.exp >= t THEN tok.sub ELSE 0

\* The authenticated user's id, or 0 (the guard raises 401).
get_current_user(tok, us, key, t) ==
    LET sub == verify_token(tok, key, t)
    IN  IF sub \in DOMAIN us THEN sub ELSE 0

\* What a client can put in the Authorization header: nothing, a token it
\* was given, or a token it signed itself.
Presentable ==
    {NoToken} \cup issued \cup {[tk EXCEPT !.sig = "forged"] : tk \in issued}

\* ------------------------------------------------------------ response views
UserResponse(us, id) ==
    [id |-> id, email |-> us[id].email, name |-> us[id].name,
     profile_picture |-> us[id].profile_picture]

Reply(op, status, caller, target, body) ==
    [op |-> op, status |-> status, caller |-> caller, target |-> target, body |-> body]

\* ------------------------------------------------------------------- Init
Init ==
    /\ users = << >>
    /\ posts = << >>
    /\ comments = << >>
    /\ txn = [w \in Workers |-> Idle]
    /\ resp = NoResp
    /\ issued = {}
    /\ now = 0
    /\ ticks = 0
    /\ secret_key = "k1"
    /\ uuids = [users |-> 0, posts |-> 0, comments |-> 0]

\* Add row r under key id to table tbl.
Insert(tbl, id, r) == [k \in DOMAIN tbl \cup {id} |-> IF k = id THEN r ELSE tbl[k]]

\* Remove the rows with keys in ids from table tbl.
Remove(tbl, ids) == [k \in DOMAIN tbl \ ids |-> tbl[k]]

EmailTaken(us, email) == \E u \in DOMAIN us : us[u].email = email

\* ----------------------------------------------------------------- /auth
\* register, up to the construction of new_user.
RegisterBegin(w, email, password, name, salt) ==
    /\ txn[w].op = "idle"
    /\ IF EmailTaken(users, email)
       THEN /\ resp' = Reply("register", HTTP_400, 0, 0, [email |-> email, detail |-> "Email already registered"])
            /\ UNCHANGED <<txn, uuids>>
       ELSE /\ uuids.users < MaxUsers
            /\ uuids' = [uuids EXCEPT !.users = @ + 1]
            /\ txn' = [txn EXCEPT ![w] =
                          [op |-> "register", id |-> uuids.users + 1, email |-> email,
                           password |-> get_password_hash(password, salt), name |-> name]]
            /\ resp' = NoResp
    /\ UNCHANGED <<data, issued, clock, secret_key>>

\* Faulty variant of RegisterToken: the token is made before the row has
\* an id, so it names no user.
RegisterTokenNoSubject(t) == create_access_token(0, secret_key, now)

\* The access token register returns for the row it inserted.
RegisterToken(t) == create_access_token(t.id, secret_key, now)

\* register from db.add(new_user) on: the INSERT under the unique email
\* index, then the token and the response.
RegisterCommit(w) ==
    /\ txn[w].op = "register"
    /\ txn' = [txn EXCEPT ![w] = Idle]
    /\ IF EmailTaken(users, txn[w].email)
       THEN \* IntegrityError out of db.commit(): general_exception_handler
            /\ resp' = Reply("register", HTTP_500, 0, 0, [email |-> txn[w].email, detail |-> "Internal server error"])
            /\ UNCHANGED <<users, issued>>
       ELSE /\ users' = Insert(users, txn[w].id,
                               [email |-> txn[w].email, password |-> txn[w].password,
                                name |-> txn[w].name, profile_picture |-> NULL])
            /\ issued' = issued \cup {RegisterToken(txn[w])}
            /\ resp' = Reply("register", HTTP_201, 0, 0,
                             [email |-> txn[w].email, access_token |-> RegisterToken(txn[w]),
                              user |-> UserResponse(users', txn[w].id)])
    /\ UNCHANGED <<posts, comments, clock, secret_key, uuids>>

\* Faulty variant of LoginAccepts: the password is not verified.
LoginAcceptsAnyPassword(us, email, password) ==
    \E u \in DOMAIN us : us[u].email = email

\* Whether login accepts the credentials for the row with this email.
LoginAccepts(us, email, password) ==
    \E u \in DOMAIN us : us[u].email = email /\ verify_password(password, us[u].password)

Login(email, password) ==
    /\ IF ~LoginAccepts(users, email, password)
       THEN /\ resp' = Reply("login", HTTP_401, 0, 0, [email |-> email, password |-> password, detail |-> "Invalid email or password"])
            /\ UNCHANGED issued
       ELSE LET u == CHOOSE x \in DOMAIN users : users[x].email = email
                tok == create_access_token(u, secret_key, now)
            IN  /\ issued' = issued \cup {tok}
                /\ resp' = Reply("login", HTTP_200, 0, 0,
                                 [email |-> email, password |-> password, access_token |-> tok,
                                  user |-> UserResponse(users, u)])
    /\ UNCHANGED <<data, txn, clock, secret_key, uuids>>

\* Faulty variant of Logout: the server ends every session by replacing
\* its signing key.
LogoutRotatingKey ==
    /\ resp' = Reply("logout", HTTP_200, 0, 0, [message |-> "Successfully logged out"])
    /\ secret_key' = "k2"
    /\ UNCHANGED <<data, txn, issued, clock, uuids>>

Logout ==
    /\ resp' = Reply("logout", HTTP_200, 0, 0, [message |-> "Successfully logged out"])
    /\ UNCHANGED <<data, txn, issued, clock, secret_key, uuids>>

\* ---------------------------------------------------------------- /users
\* GET /users/me
get_current_user_profile(tok) ==
    LET me == get_current_user(tok, users, secret_key, now)
    IN  /\ resp' = IF me = 0
                   THEN Reply("get_me", HTTP_401, 0, 0, [token |-> tok])
                   ELSE Reply("get_me", HTTP_200, me, 0, [token |-> tok, user |-> UserResponse(users, me)])
        /\ UNCHANGED <<data, txn, issued, clock, secret_key, uuids>>

\* Faulty variant of Apply: the column is assigned whether or not the
\* request gave the field.
ApplyAlways(old, given) == given

\* The value a column has after "if data.f is not None: row.f = data.f".
Apply(old, given) == IF given # NULL THEN given ELSE old

\* PUT /users/me, up to db.commit().
UpdateUserBegin(w, tok, name, picture) ==
    LET me == get_current_user(tok, users, secret_key, now)
    IN  /\ txn[w].op = "idle"
        /\ IF me = 0
           THEN /\ resp' = Reply("update_user", HTTP_401, 0, 0, [detail |-> "rejected"])
                /\ UNCHANGED txn
           ELSE /\ txn' = [txn EXCEPT ![w] =
                              [op |-> "update_user", caller |-> me,
                               name |-> name, profile_picture |-> picture]]
                /\ resp' = NoResp
        /\ UNCHANGED <<data, issued, clock, secret_key, uuids>>

\* The users row after update_user_profile's assignments.
UpdatedUser(row, t) ==
    [row EXCEPT !.name = Apply(@, t.name),
                !.profile_picture = Apply(@, t.profile_picture)]

UpdateUserCommit(w) ==
    LET t == txn[w]
    IN  /\ t.op = "update_user"
        /\ txn' = [txn EXCEPT ![w] = Idle]
        /\ users' = [users EXCEPT ![t.caller] = UpdatedUser(@, t)]
        /\ resp' = Reply("update_user", HTTP_200, t.caller, 0,
                         [name |-> t.name, profile_picture |-> t.profile_picture,
                          user |-> UserResponse(users', t.caller)])
        /\ UNCHANGED <<posts, comments, issued, clock, secret_key, uuids>>

\* ---------------------------------------------------------------- /posts
\* PostResponse as the posts and users handlers build it: the constructor
\* is given author_name and no author_profile_picture, which keeps the
\* schema's default.
PostResponse(ps, id, author_name) ==
    [id |-> id, title |-> ps[id].title, content |-> ps[id].content,
     excerpt |-> ps[id].excerpt, category |-> ps[id].category,
     author_id |-> ps[id].author_id, author_name |-> author_name,
     author_profile_picture |-> NULL,
     created_at |-> ps[id].created_at, updated_at |-> ps[id].updated_at]

\* The orders in which ORDER BY created_at DESC can return the rows ids of tbl.
NewestFirst(tbl, ids) ==
    {s \in [1..Cardinality(ids) -> ids] :
        /\ \A i, j \in DOMAIN s : i # j => s[i] # s[j]
        /\ \A i, j \in DOMAIN s : i < j => tbl[s[i]].created_at >= tbl[s[j]].created_at}

\* GET /users/me/posts
get_user_posts(tok) ==
    LET me == get_current_user(tok, users, secret_key, now)
        mine == {p \in DOMAIN posts : posts[p].author_id = me}
    IN  /\ IF me = 0
           THEN resp' = Reply("get_user_posts", HTTP_401, 0, 0, [detail |-> "rejected"])
           ELSE \E s \in NewestFirst(posts, mine) :
                   resp' = Reply("get_user_posts", HTTP_200, me, 0,
                                 [views |-> [i \in DOMAIN s |-> PostResponse(posts, s[i], users[me].name)]])
        /\ UNCHANGED <<data, txn, issued, clock, secret_key, uuids>>

\* POST /posts, up to db.commit().
CreatePostBegin(w, tok, title, content, excerpt, category) ==
    LET me == get_current_user(tok, users, secret_key, now)
    IN  /\ txn[w].op = "idle"
        /\ IF me = 0
           THEN /\ resp' = Reply("create_post", HTTP_401, 0, 0, [detail |-> "rejected"])
                /\ UNCHANGED <<txn, uuids>>
           ELSE /\ uuids.posts < MaxPosts
                /\ uuids' = [uuids EXCEPT !.posts = @ + 1]
                /\ txn' = [txn EXCEPT ![w] =
                              [op |-> "create_post", caller |-> me, id |-> uuids.posts + 1,
                               title |-> title, content |-> content,
                               excerpt |-> excerpt, category |-> category]]
                /\ resp' = NoResp
        /\ UNCHANGED <<data, issued, clock, secret_key>>

\* Faulty variant of NewPost: updated_at has no insert default and starts
\* at the epoch.
NewPostUpdatedUnset(t, at) ==
    [title |-> t.title, content |-> t.content, excerpt |-> t.excerpt,
     category |-> t.category, author_id |-> t.caller,
     created_at |-> at, updated_at |-> 0]

\* The posts row create_post inserts.
NewPost(t, at) ==
    [title |-> t.title, content |-> t.content, excerpt |-> t.excerpt,
     category |-> t.category, author_id |-> t.caller,
     created_at |-> at, updated_at |-> at]

CreatePostCommit(w) ==
    LET t == txn[w]
    IN  /\ t.op = "create_post"
        /\ txn' = [txn EXCEPT ![w] = Idle]
        /\ posts' = Insert(posts, t.id, NewPost(t, now))
        /\ resp' = Reply("create_post", HTTP_201, t.caller, t.id,
                         [view |-> PostResponse(posts', t.id, users[t.caller].name)])
        /\ UNCHANGED <<users, comments, issued, clock, secret_key, uuids>>

\* GET /posts
get_all_posts ==
    /\ \E s \in NewestFirst(posts, DOMAIN posts) :
          resp' = Reply("get_all_posts", HTTP_200, 0, 0,
                        [views |-> [i \in DOMAIN s |-> PostResponse(posts, s[i], users[posts[s[i]].author_id].name)]])
    /\ UNCHANGED <<data, txn, issued, clock, secret_key, uuids>>

\* GET /posts/{post_id}
get_post_by_id(post_id) ==
    /\ resp' = IF post_id \notin DOMAIN posts
               THEN Reply("get_post_by_id", HTTP_404, 0, post_id, [detail |-> "Post not found"])
               ELSE Reply("get_post_by_id", HTTP_200, 0, post_id,
                          [view |-> PostResponse(posts, post_id, users[posts[post_id].author_id].name)])
    /\ UNCHANGED <<data, txn, issued, clock, secret_key, uuids>>

\* Faulty variant of OwnerGuard: the ownership test is left out.
OwnerGuardNoOwnership(tbl, id, caller) ==
    IF id \notin DOMAIN tbl THEN HTTP_404 ELSE HTTP_200

\* Faulty variant of OwnerGuard: ownership is tested first, so that an id
\* that is not stored is answered like one the caller does not own.
OwnerGuardOwnershipFirst(tbl, id, caller) ==
    IF id \in DOMAIN tbl /\ tbl[id].author_id = caller THEN HTTP_200
    ELSE HTTP_403

\* The preconditions of update and delete, in the handlers' order: the row
\* exists, then the caller is its author.  The status the handler raises,
\* or 200 when it goes on to the mutation.
OwnerGuard(tbl, id, caller) ==
    IF id \notin DOMAIN tbl THEN HTTP_404
    ELSE IF tbl[id].author_id # caller THEN HTTP_403
    ELSE HTTP_200

\* PUT /posts/{post_id}, up to db.commit().
UpdatePostBegin(w, tok, post_id, title, content, excerpt, category) ==
    LET me == get_current_user(tok, users, secret_key, now)
        st == OwnerGuard(posts, post_id, me)
    IN  /\ txn[w].op = "idle"
        /\ IF me = 0
           THEN /\ resp' = Reply("update_post", HTTP_401, 0, post_id, [detail |-> "rejected"])
                /\ UNCHANGED txn
           ELSE IF st # HTTP_200
           THEN /\ resp' = Reply("update_post", st, me, post_id, [detail |-> "rejected"])
                /\ UNCHANGED txn
           ELSE /\ txn' = [txn EXCEPT ![w] =
                              [op |-> "update_post", caller |-> me, id |-> post_id,
                               title |-> title, content |-> content,
                               excerpt |-> excerpt, category |-> category,
                               updated_at |-> now]]
                /\ resp' = NoResp
        /\ UNCHANGED <<data, issued, clock, secret_key, uuids>>

\* Faulty variant of UpdatedPost: the update stamps created_at as well.
UpdatedPostRestamped(row, t) ==
    [row EXCEPT !.title = Apply(@, t.title),
                !.content = Apply(@, t.content),
                !.excerpt = Apply(@, t.excerpt),
                !.category = Apply(@, t.category),
                !.created_at = t.updated_at,
                !.updated_at = t.updated_at]

\* The posts row after update_post's assignments.
UpdatedPost(row, t) ==
    [row EXCEPT !.title = Apply(@, t.title),
                !.content = Apply(@, t.content),
                !.excerpt = Apply(@, t.excerpt),
                !.category = Apply(@, t.category),
                !.updated_at = t.updated_at]

\* update_post from db.commit() on.  An UPDATE that matches no row (the
\* post was deleted meanwhile) raises StaleDataError.
UpdatePostCommit(w) ==
    LET t == txn[w]
    IN  /\ t.op = "update_post"
        /\ txn' = [txn EXCEPT ![w] = Idle]
        /\ IF t.id \notin DOMAIN posts
           THEN /\ resp' = Reply("update_post", HTTP_500, t.caller, t.id, [detail |-> "Internal server error"])
                /\ UNCHANGED posts
           ELSE /\ posts' = [posts EXCEPT ![t.id] = UpdatedPost(@, t)]
                /\ resp' = Reply("update_post", HTTP_200, t.caller, t.id,
                                 [given |-> [title |-> t.title, content |-> t.content,
                                             excerpt |-> t.excerpt, category |-> t.category],
                                  utcnow |-> t.updated_at,
                                  view |-> PostResponse(posts', t.id, users[posts'[t.id].author_id].name)])
        /\ UNCHANGED <<users, comments, issued, clock, secret_key, uuids>>

\* Faulty variant of DeletePostBegin: the post is deleted and committed
\* before the ownership test, which then refuses the caller.
DeletePostBeforeOwnership(w, tok, post_id) ==
    LET me == get_current_user(tok, users, secret_key, now)
        st == OwnerGuard(posts, post_id, me)
    IN  /\ txn[w].op = "idle"
        /\ IF me = 0
           THEN /\ resp' = Reply("delete_post", HTTP_401, 0, post_id, [detail |-> "rejected"])
                /\ UNCHANGED <<txn, posts, comments>>
           ELSE IF st = HTTP_404
           THEN /\ resp' = Reply("delete_post", st, me, post_id, [detail |-> "rejected"])
                /\ UNCHANGED <<txn, posts, comments>>
           ELSE IF st = HTTP_403
           THEN /\ posts' = Remove(posts, {post_id})
                /\ comments' = Remove(comments, {c \in DOMAIN comments : comments[c].post_id = post_id})
                /\ resp' = Reply("delete_post", st, me, post_id, [detail |-> "rejected"])
                /\ UNCHANGED txn
           ELSE /\ txn' = [txn EXCEPT ![w] = [op |-> "delete_post", caller |-> me, id |-> post_id]]
                /\ resp' = NoResp
                /\ UNCHANGED <<posts, comments>>
        /\ UNCHANGED <<users, issued, clock, secret_key, uuids>>

\* DELETE /posts/{post_id}, up to db.delete(post).
DeletePostBegin(w, tok, post_id) ==
    LET me == get_current_user(tok, users, secret_key, now)
        st == OwnerGuard(posts, post_id, me)
    IN  /\ txn[w].op = "idle"
        /\ IF me = 0
           THEN /\ resp' = Reply("delete_post", HTTP_401, 0, post_id, [detail |-> "rejected"])
                /\ UNCHANGED txn
           ELSE IF st # HTTP_200
           THEN /\ resp' = Reply("delete_post", st, me, post_id, [detail |-> "rejected"])
                /\ UNCHANGED txn
           ELSE /\ txn' = [txn EXCEPT ![w] = [op |-> "delete_post", caller |-> me, id |-> post_id]]
                /\ resp' = NoResp
        /\ UNCHANGED <<data, issued, clock, secret_key, uuids>>

\* Faulty variant of CascadeComments: the relationship has no cascade.
CascadeNone(cs, post_id) == {}

\* relationship("Comment", cascade="all, delete-orphan"): the comments the
\* unit of work deletes with post post_id.
CascadeComments(cs, post_id) == {c \in DOMAIN cs : cs[c].post_id = post_id}

\* delete_post from db.delete(post) on.  A DELETE that matches no row only
\* warns.
DeletePostCommit(w) ==
    LET t == txn[w]
    IN  /\ t.op = "delete_post"
        /\ txn' = [txn EXCEPT ![w] = Idle]
        /\ posts' = Remove(posts, {t.id})
        /\ comments' = Remove(comments, CascadeComments(comments, t.id))
        /\ resp' = Reply("delete_post", HTTP_200, t.caller, t.id, [message |-> "Post successfully deleted"])
        /\ UNCHANGED <<users, issued, clock, secret_key, uuids>>

\* ------------------------------------------------------------- /comments
CommentResponse(cs, us, id) ==
    [id |-> id, content |-> cs[id].content, post_id |-> cs[id].post_id,
     author_id |-> cs[id].author_id, author_name |-> us[cs[id].author_id].name,
     author_profile_picture |-> us[cs[id].author_id].profile_picture,
     created_at |-> cs[id].created_at, updated_at |-> cs[id].updated_at]

\* Faulty variant of PostExists: the post is not looked up.
PostExistsUnchecked(ps, post_id) == TRUE

\* "Check if post exists" of create_comment and get_comments_by_post.
PostExists(ps, post_id) == post_id \in DOMAIN ps

\* POST /posts/{post_id}/comments, up to db.commit().
CreateCommentBegin(w, tok, post_id, content) ==
    LET me == get_current_user(tok, users, secret_key, now)
    IN  /\ txn[w].op = "idle"
        /\ IF me = 0
           THEN /\ resp' = Reply("create_comment", HTTP_401, 0, post_id, [detail |-> "rejected"])
                /\ UNCHANGED <<txn, uuids>>
           ELSE IF ~PostExists(posts, post_id)
           THEN /\ resp' = Reply("create_comment", HTTP_404, me, post_id, [detail |-> "Post not found"])
                /\ UNCHANGED <<txn, uuids>>
           ELSE /\ uuids.comments < MaxComments
                /\ uuids' = [uuids EXCEPT !.comments = @ + 1]
                /\ txn' = [txn EXCEPT ![w] =
                              [op |-> "create_comment", caller |-> me, id |-> uuids.comments + 1,
                               post_id |-> post_id, content |-> content]]
                /\ resp' = NoResp
        /\ UNCHANGED <<data, issued, clock, secret_key>>

\* The comments row create_comment inserts.
NewComment(t, at) ==
    [content |-> t.content, post_id |-> t.post_id, author_id |-> t.caller,
     created_at |-> at, updated_at |-> at]

\* ForeignKey("posts.id") on comments.post_id.
ForeignKeyHolds(ps, post_id) == post_id \in DOMAIN ps

\* create_comment from db.add(new_comment) on.
CreateCommentCommit(w) ==
    LET t == txn[w]
    IN  /\ t.op = "create_comment"
        /\ txn' = [txn EXCEPT ![w] = Idle]
        /\ IF ~ForeignKeyHolds(posts, t.post_id)
           THEN \* IntegrityError out of db.commit()
                /\ resp' = Reply("create_comment", HTTP_500, t.caller, t.post_id, [detail |-> "Internal server error"])
                /\ UNCHANGED comments
           ELSE /\ comments' = Insert(comments, t.id, NewComment(t, now))
                /\ resp' = Reply("create_comment", HTTP_201, t.caller, t.post_id,
                                 [view |-> CommentResponse(comments', users, t.id)])
        /\ UNCHANGED <<users, posts, issued, clock, secret_key, uuids>>

\* GET /posts/{post_id}/comments
get_comments_by_post(post_id) ==
    /\ IF ~PostExists(posts, post_id)
       THEN resp' = Reply("get_comments_by_post", HTTP_404, 0, post_id, [detail |-> "Post not found"])
       ELSE \E s \in NewestFirst(comments, {c \in DOMAIN comments : comments[c].post_id = post_id}) :
               resp' = Reply("get_comments_by_post", HTTP_200, 0, post_id,
                             [views |-> [i \in DOMAIN s |-> CommentResponse(comments, users, s[i])]])
    /\ UNCHANGED <<data, txn, issued, clock, secret_key, uuids>>

\* PUT /comments/{comment_id}, up to db.commit().
UpdateCommentBegin(w, tok, comment_id, content) ==
    LET me == get_current_user(tok, users, secret_key, now)
        st == OwnerGuard(comments, comment_id, me)
    IN  /\ txn[w].op = "idle"
        /\ IF me = 0
           THEN /\ resp' = Reply("update_comment", HTTP_401, 0, comment_id, [detail |-> "rejected"])
                /\ UNCHANGED txn
           ELSE IF st # HTTP_200
           THEN /\ resp' = Reply("update_comment", st, me, comment_id, [detail |-> "rejected"])
                /\ UNCHANGED txn
           ELSE /\ txn' = [txn EXCEPT ![w] =
                              [op |-> "update_comment", caller |-> me, id |-> comment_id,
                               content |-> content, updated_at |-> now]]
                /\ resp' = NoResp
        /\ UNCHANGED <<data, issued, clock, secret_key, uuids>>

\* update_comment from db.commit() on; StaleDataError as for posts.
UpdateCommentCommit(w) ==
    LET t == txn[w]
    IN  /\ t.op = "update_comment"
        /\ txn' = [txn EXCEPT ![w] = Idle]
        /\ IF t.id \notin DOMAIN comments
           THEN /\ resp' = Reply("update_comment", HTTP_500, t.caller, t.id, [detail |-> "Internal server error"])
                /\ UNCHANGED comments
           ELSE /\ comments' = [comments EXCEPT ![t.id] =
                                   [@ EXCEPT !.content = t.content, !.updated_at = t.updated_at]]
                /\ resp' = Reply("update_comment", HTTP_200, t.caller, t.id,
                                 [view |-> CommentResponse(comments', users, t.id)])
        /\ UNCHANGED <<users, posts, issued, clock, secret_key, uuids>>

\* DELETE /comments/{comment_id}, up to db.delete(comment).
DeleteCommentBegin(w, tok, comment_id) ==
    LET me == get_current_user(tok, users, secret_key, now)
        st == OwnerGuard(comments, comment_id, me)
    IN  /\ txn[w].op = "idle"
        /\ IF me = 0
           THEN /\ resp' = Reply("delete_comment", HTTP_401, 0, comment_id, [detail |-> "rejected"])
                /\ UNCHANGED txn
           ELSE IF st # HTTP_200
           THEN /\ resp' = Reply("delete_comment", st, me, comment_id, [detail |-> "rejected"])
                /\ UNCHANGED txn
           ELSE /\ txn' = [txn EXCEPT ![w] = [op |-> "delete_comment", caller |-> me, id |-> comment_id]]
                /\ resp' = NoResp
        /\ UNCHANGED <<data, issued, clock, secret_key, uuids>>

DeleteCommentCommit(w) ==
    LET t == txn[w]
    IN  /\ t.op = "delete_comment"
        /\ txn' = [txn EXCEPT ![w] = Idle]
        /\ comments' = Remove(comments, {t.id})
        /\ resp' = Reply("delete_comment", HTTP_200, t.caller, t.id, [message |-> "Comment successfully deleted"])
        /\ UNCHANGED <<users, posts, issued, clock, secret_key, uuids>>

\* ------------------------------------------------------------------ clock
Tick(minutes) ==
    /\ ticks < MaxTicks
    /\ ticks' = ticks + 1
    /\ now' = now + minutes
    /\ resp' = NoResp
    /\ UNCHANGED <<data, txn, issued, secret_key, uuids>>

\* Optional request fields: left out (None) or given.
Opt(S) == {NULL} \cup S

\* ------------------------------------------------------- request classes
\* Each class takes the workers that serve it and the sets its request
\* fields are drawn from.
Registration(W, E) ==
    \/ \E w \in W, e \in E, p \in RegPasswords, n \in RegNames, s \in Salts :
          RegisterBegin(w, e, p, n, s)
    \/ \E w \in W : RegisterCommit(w)

Sessions ==
    \/ \E e \in Emails, p \in Passwords : Login(e, p)
    \/ Logout
    \/ \E tok \in Presentable : get_current_user_profile(tok)

Profiles(W) ==
    \/ \E w \in W, tok \in Presentable, n \in Opt(NewNames), pic \in Opt(Pictures) :
          UpdateUserBegin(w, tok, n, pic)
    \/ \E w \in W : UpdateUserCommit(w)

\* PUT /users/me with a name and no picture.
Renames(W) ==
    \/ \E w \in W, tok \in Presentable, n \in NewNames : UpdateUserBegin(w, tok, n, NULL)
    \/ \E w \in W : UpdateUserCommit(w)

PostCreates(W, X, G) ==
    \/ \E w \in W, tok \in Presentable, ti \in Titles, co \in Contents,
          ex \in {NULL} \cup X, ca \in {NULL} \cup G :
          CreatePostBegin(w, tok, ti, co, ex, ca)
    \/ \E w \in W : CreatePostCommit(w)

PostUpdates(W, T, C, X, G) ==
    \/ \E w \in W, tok \in Presentable, p \in PostIds, ti \in T,
          co \in {NULL} \cup C, ex \in {NULL} \cup X, ca \in {NULL} \cup G :
          UpdatePostBegin(w, tok, p, ti, co, ex, ca)
    \/ \E w \in W : UpdatePostCommit(w)

PostDeletes(W) ==
    \/ \E w \in W, tok \in Presentable, p \in PostIds : DeletePostBegin(w, tok, p)
    \/ \E w \in W : DeletePostCommit(w)

PostReads ==
    \/ \E tok \in Presentable : get_user_posts(tok)
    \/ get_all_posts
    \/ \E p \in PostIds : get_post_by_id(p)

CommentWrites(W) ==
    \/ \E w \in W, tok \in Presentable, p \in PostIds, co \in CommentTexts :
          CreateCommentBegin(w, tok, p, co)
    \/ \E w \in W : CreateCommentCommit(w)
    \/ \E w \in W, tok \in Presentable, c \in CommentIds, co \in NewCommentTexts :
          UpdateCommentBegin(w, tok, c, co)
    \/ \E w \in W : UpdateCommentCommit(w)
    \/ \E w \in W, tok \in Presentable, c \in CommentIds : DeleteCommentBegin(w, tok, c)
    \/ \E w \in W : DeleteCommentCommit(w)

CommentReads ==
    \E p \in PostIds : get_comments_by_post(p)

Clock(D) == \E d \in D : Tick(d)

\* The response of the last step goes out to its client.  A step is
\* taken once the previous response is out, so that each response is
\* looked at in the state that produced it and in no other.
Deliver ==
    /\ resp.op # "none"
    /\ resp' = NoResp
    /\ UNCHANGED <<data, txn, issued, clock, secret_key, uuids>>

Ready == resp.op = "none"

\* The whole API.
Next ==
    \/ Ready /\ Registration(Workers, Emails)
    \/ Ready /\ Sessions
    \/ Ready /\ Profiles(Workers)
    \/ Ready /\ PostCreates(Workers, Excerpts, Categories)
    \/ Ready /\ PostUpdates(Workers, Opt(NewTitles), NewContents, Excerpts, Categories)
    \/ Ready /\ PostDeletes(Workers)
    \/ Ready /\ PostReads
    \/ Ready /\ CommentWrites(Workers)
    \/ Ready /\ CommentReads
    \/ Ready /\ Clock(Minute \cup Lifetime)
    \/ Deliver

Spec == Init /\ [][Next]_vars

\* Accounts and sessions: /auth and GET /users/me, across a token's expiry.
NextAuth ==
    \/ Ready /\ Registration(Workers, Emails)
    \/ Ready /\ Sessions
    \/ Ready /\ Clock(Lifetime)
    \/ Deliver

SpecAuth == Init /\ [][NextAuth]_vars

\* Ownership and references: every handler that writes posts or comments;
\* accounts are registered one at a time, and a post update carries a
\* title and nothing else.
NextOwner ==
    \/ Ready /\ Registration({"w1"}, Emails)
    \/ Ready /\ PostCreates(Workers, {}, {})
    \/ Ready /\ PostUpdates(Workers, NewTitles, {}, {}, {})
    \/ Ready /\ PostDeletes(Workers)
    \/ Ready /\ CommentWrites(Workers)
    \/ Ready /\ CommentReads
    \/ Deliver

SpecOwner == Init /\ [][NextOwner]_vars

\* Views: profiles, posts and everything that returns a post; a post
\* update carries a title and nothing else.
NextViews ==
    \/ Ready /\ Registration(Workers, Emails)
    \/ Ready /\ Profiles(Workers)
    \/ Ready /\ PostCreates(Workers, {}, {})
    \/ Ready /\ PostUpdates(Workers, NewTitles, {}, {}, {})
    \/ Ready /\ PostDeletes(Workers)
    \/ Ready /\ PostReads
    \/ Deliver

SpecViews == Init /\ [][NextViews]_vars

\* Edits: the partial updates of profiles and posts, with every subset of
\* the optional fields, over time, by one account, one request at a time.
NextEdits ==
    \/ Ready /\ Registration({"w1"}, {"a@x.com"})
    \/ Ready /\ Profiles({"w1"})
    \/ Ready /\ PostCreates({"w1"}, {}, {})
    \/ Ready /\ PostUpdates({"w1"}, Opt(NewTitles), NewContents, Excerpts, Categories)
    \/ Ready /\ Clock(Minute)
    \/ Deliver

SpecEdits == Init /\ [][NextEdits]_vars

\* Refusals: every handler of the API, one request at a time, at one
\* instant; a post update carries a title and a profile update a name, and
\* nothing else.
NextErrors ==
    \/ Ready /\ Registration({"w1"}, Emails)
    \/ Ready /\ Sessions
    \/ Ready /\ Renames({"w1"})
    \/ Ready /\ PostCreates({"w1"}, {}, {})
    \/ Ready /\ PostUpdates({"w1"}, NewTitles, {}, {}, {})
    \/ Ready /\ PostDeletes({"w1"})
    \/ Ready /\ PostReads
    \/ Ready /\ CommentWrites({"w1"})
    \/ Ready /\ CommentReads
    \/ Deliver

SpecErrors == Init /\ [][NextErrors]_vars

\* Rows over time: every handler that writes, one request at a time, with
\* the clock advancing between steps; a post update carries a title and a
\* profile update a name, and nothing else.
NextRows ==
    \/ Ready /\ Registration({"w1"}, Emails)
    \/ Ready /\ Renames({"w1"})
    \/ Ready /\ PostCreates({"w1"}, {}, {})
    \/ Ready /\ PostUpdates({"w1"}, NewTitles, {}, {}, {})
    \/ Ready /\ PostDeletes({"w1"})
    \/ Ready /\ CommentWrites({"w1"})
    \/ Ready /\ Clock(Minute)
    \/ Deliver

SpecRows == Init /\ [][NextRows]_vars

\* Timestamps: one account's post and comments over time, with two
\* workers updating the post, so that an update that read the clock
\* earlier can commit after one that read it later.
NextStamps ==
    \/ Ready /\ Registration({"w1"}, {"a@x.com"})
    \/ Ready /\ PostCreates({"w1"}, {}, {})
    \/ Ready /\ PostUpdates(Workers, NewTitles, {}, {}, {})
    \/ Ready /\ PostDeletes({"w1"})
    \/ Ready /\ CommentWrites({"w1"})
    \/ Ready /\ Clock(Minute)
    \/ Deliver

SpecStamps == Init /\ [][NextStamps]_vars

\* ================================================================ claims
PostMutations == {"update_post", "delete_post"}
CommentMutations == {"update_comment", "delete_comment"}
Mutations == PostMutations \cup CommentMutations

\* Whether the row a mutation names is stored, and who its author is.
Stored(op, id) == IF op \in PostMutations THEN id \in DOMAIN posts ELSE id \in DOMAIN comments
AuthorOf(op, id) == IF op \in PostMutations THEN posts[id].author_id ELSE comments[id].author_id

\* The statuses a write handler answers with before it reaches db.commit().
Refusals == {HTTP_400, HTTP_401, HTTP_403, HTTP_404}

\* C1: a post or comment is changed or removed by a step only when that
\* step is the successful update or delete of it by its author (or, for a
\* comment, the successful delete of its post by the post's author); no
\* update or delete goes on to its write for another caller, and an
\* authenticated caller who is not the author of an existing row is
\* answered 403.
OnlyAuthorMutates ==
    [][/\ \A p \in DOMAIN posts :
             (p \notin DOMAIN posts' \/ posts'[p] # posts[p]) =>
                 /\ resp'.op \in PostMutations
                 /\ resp'.status = HTTP_200
                 /\ resp'.target = p
                 /\ resp'.caller = posts[p].author_id
       /\ \A c \in DOMAIN comments :
             (c \notin DOMAIN comments' \/ comments'[c] # comments[c]) =>
                 \/ /\ resp'.op \in CommentMutations
                    /\ resp'.status = HTTP_200
                    /\ resp'.target = c
                    /\ resp'.caller = comments[c].author_id
                 \/ /\ resp'.op = "delete_post"
                    /\ resp'.status = HTTP_200
                    /\ resp'.target = comments[c].post_id
                    /\ resp'.target \in DOMAIN posts
                    /\ resp'.caller = posts[resp'.target].author_id
       /\ \A w \in Workers :
             (txn[w].op = "idle" /\ txn'[w].op \in Mutations) =>
                 /\ Stored(txn'[w].op, txn'[w].id)
                 /\ AuthorOf(txn'[w].op, txn'[w].id) = txn'[w].caller
       /\ (/\ resp'.op \in Mutations
           /\ resp'.status \in Refusals
           /\ resp'.caller # 0
           /\ Stored(resp'.op, resp'.target)
           /\ AuthorOf(resp'.op, resp'.target) # resp'.caller) => resp'.status = HTTP_403
      ]_vars

\* A caller who is not the author of a stored comment has just been refused.
StrangerRefused ==
    /\ resp.op \in CommentMutations
    /\ resp.status = HTTP_403
    /\ resp.target \in DOMAIN comments
    /\ comments[resp.target].author_id # resp.caller
    /\ resp.caller \in DOMAIN users

UniqueEmails == \A u, v \in DOMAIN users : users[u].email = users[v].email => u = v

\* C2: no two stored users share an email, and every register whose email
\* is held by a stored user when it ends, ends with 400 and adds no row.
RegisterTwiceConflicts ==
    [][/\ UniqueEmails'
       /\ (resp'.op = "register" /\ EmailTaken(users, resp'.body.email)) =>
              (resp'.status = HTTP_400 /\ users' = users)
      ]_vars

\* C3: every stored comment's post_id is the id of a stored post.
NoOrphanComment == \A c \in DOMAIN comments : comments[c].post_id \in DOMAIN posts

\* A comment's insert has just been rejected because its post was deleted
\* between the handler's existence check and its commit.
CommentLostRace ==
    /\ resp.op = "create_comment"
    /\ resp.status = HTTP_500
    /\ resp.target \notin DOMAIN posts

\* C4: a successful register returns a token whose subject is the id of the
\* one row it inserted, the row holding the registered email; a stored
\* user's email never changes; and GET /users/me with an issued token that
\* has not expired answers with the user whose id is the token's subject.
RegisterTokenNamesNewUser ==
    [][/\ (resp'.op = "register" /\ resp'.status = HTTP_201) =>
              /\ DOMAIN users' \ DOMAIN users = {resp'.body.access_token.sub}
              /\ resp'.body.user.id = resp'.body.access_token.sub
              /\ users'[resp'.body.access_token.sub].email = resp'.body.email
              /\ resp'.body.access_token \in issued'
       /\ \A u \in DOMAIN users : u \in DOMAIN users' /\ users'[u].email = users[u].email
       /\ (resp'.op = "get_me" /\ resp'.body.token \in issued /\ resp'.body.token.exp >= now) =>
              /\ resp'.status = HTTP_200
              /\ resp'.body.user.id = resp'.body.token.sub
              /\ resp'.body.user.email = users[resp'.body.token.sub].email
      ]_vars

\* GET /users/me has just answered the second user's token with that user,
\* after both users registered.
SecondUserResolved ==
    /\ resp.op = "get_me"
    /\ resp.status = HTTP_200
    /\ Cardinality(DOMAIN users) = 2
    /\ resp.body.token \in issued
    /\ resp.body.user.id = 2

\* C5: login answers 401 and issues no token unless a stored user has the
\* email and the password verifies against that user's hash; then it
\* answers 200 with a token whose subject is that user's id.
LoginOnlyWithCredentials ==
    [][resp'.op = "login" =>
          IF \E u \in DOMAIN users :
                users[u].email = resp'.body.email
                /\ verify_password(resp'.body.password, users[u].password)
          THEN /\ resp'.status = HTTP_200
               /\ resp'.body.access_token.sub \in DOMAIN users
               /\ users[resp'.body.access_token.sub].email = resp'.body.email
               /\ issued' = issued \cup {resp'.body.access_token}
          ELSE /\ resp'.status = HTTP_401
               /\ "access_token" \notin DOMAIN resp'.body
               /\ issued' = issued
      ]_vars

\* A login with a stored user's email and a wrong password was just refused.
WrongPasswordRefused ==
    /\ resp.op = "login"
    /\ resp.status = HTTP_401
    /\ EmailTaken(users, resp.body.email)

\* C6: 403 is answered only for a row that is stored; an authenticated
\* update or delete of an id that is not stored is answered 404; and no
\* update or delete goes on to its write for an id that is not stored.
ExistenceBeforeOwnership ==
    [][/\ (resp'.op \in Mutations /\ resp'.status = HTTP_403) =>
              Stored(resp'.op, resp'.target)
       /\ (/\ resp'.op \in Mutations
           /\ resp'.status \in Refusals
           /\ resp'.caller # 0
           /\ ~Stored(resp'.op, resp'.target)) => resp'.status = HTTP_404
       /\ \A w \in Workers :
             (txn[w].op = "idle" /\ txn'[w].op \in Mutations) =>
                 Stored(txn'[w].op, txn'[w].id)
      ]_vars

\* A second user's update or delete of a post id that is not stored was
\* just answered 404, while the first user is stored too.
MissingAnswered404 ==
    /\ resp.op \in PostMutations
    /\ resp.status = HTTP_404
    /\ resp.caller = 2
    /\ resp.target \notin DOMAIN posts
    /\ 1 \in DOMAIN users

\* C7: a successful post update leaves every field the request did not
\* give at its value before the commit, gives every other field the
\* request's value, and sets updated_at to the time the handler read; the
\* author, the creation time and every other post stay; a successful
\* profile update does the same for name and profile_picture and leaves
\* the email and the password hash.
UpdateAppliesGivenFields ==
    [][/\ (resp'.op = "update_post" /\ resp'.status = HTTP_200) =>
              LET g == resp'.body.given
                  old == posts[resp'.target]
                  new == posts'[resp'.target]
              IN  /\ new.title = (IF g.title = NULL THEN old.title ELSE g.title)
                  /\ new.content = (IF g.content = NULL THEN old.content ELSE g.content)
                  /\ new.excerpt = (IF g.excerpt = NULL THEN old.excerpt ELSE g.excerpt)
                  /\ new.category = (IF g.category = NULL THEN old.category ELSE g.category)
                  /\ new.updated_at = resp'.body.utcnow
                  /\ new.author_id = old.author_id
                  /\ new.created_at = old.created_at
                  /\ resp'.body.view.title = new.title
                  /\ resp'.body.view.excerpt = new.excerpt
                  /\ \A q \in DOMAIN posts \ {resp'.target} : q \in DOMAIN posts' /\ posts'[q] = posts[q]
       /\ (resp'.op = "update_user" /\ resp'.status = HTTP_200) =>
              LET old == users[resp'.caller]
                  new == users'[resp'.caller]
              IN  /\ new.name = (IF resp'.body.name = NULL THEN old.name ELSE resp'.body.name)
                  /\ new.profile_picture =
                        (IF resp'.body.profile_picture = NULL THEN old.profile_picture
                         ELSE resp'.body.profile_picture)
                  /\ new.email = old.email
                  /\ new.password = old.password
      ]_vars

\* An update that gave a title and no excerpt has just kept the excerpt an
\* earlier update had set, at a later time than the post's creation.
PartialUpdateKept ==
    /\ resp.op = "update_post"
    /\ resp.status = HTTP_200
    /\ resp.body.given.title # NULL
    /\ resp.body.given.excerpt = NULL
    /\ resp.body.view.excerpt # NULL
    /\ resp.body.view.updated_at > resp.body.view.created_at

\* The post views a response carries.
ViewsOf(r) ==
    IF r.op \in {"create_post", "get_post_by_id", "update_post"} /\ r.status \in {HTTP_200, HTTP_201}
    THEN {r.body.view}
    ELSE IF r.op \in {"get_all_posts", "get_user_posts"} /\ r.status = HTTP_200
    THEN {r.body.views[i] : i \in DOMAIN r.body.views}
    ELSE {}

\* C8: every post view a response carries shows the author's name and
\* profile picture as stored on the author's users row at response time.
PostViewShowsCurrentAuthor ==
    \A v \in ViewsOf(resp) :
        /\ v.author_name = users[v.author_id].name
        /\ v.author_profile_picture = users[v.author_id].profile_picture

\* C9: create_comment goes on to its insert only for a stored post, and
\* answers 404 and stores nothing for an authenticated caller otherwise;
\* get_comments_by_post answers 404 exactly for a post that is not stored;
\* a 201 stores exactly one new comment, on the requested post, which is
\* stored, by the caller; every other answer of create_comment stores none.
CommentNeedsPost ==
    [][/\ \A w \in Workers :
             (txn[w].op = "idle" /\ txn'[w].op = "create_comment") =>
                 txn'[w].post_id \in DOMAIN posts
       /\ (/\ resp'.op = "create_comment"
           /\ resp'.status \in Refusals
           /\ resp'.caller # 0) =>
              /\ resp'.status = HTTP_404
              /\ resp'.target \notin DOMAIN posts
              /\ \A w \in Workers : txn'[w] = txn[w]
       /\ resp'.op = "get_comments_by_post" =>
              resp'.status = (IF resp'.target \in DOMAIN posts THEN HTTP_200 ELSE HTTP_404)
       /\ (resp'.op = "create_comment" /\ resp'.status = HTTP_201) =>
              /\ Cardinality(DOMAIN comments' \ DOMAIN comments) = 1
              /\ \A c \in DOMAIN comments : c \in DOMAIN comments' /\ comments'[c] = comments[c]
              /\ \A c \in DOMAIN comments' \ DOMAIN comments :
                    /\ comments'[c].post_id = resp'.target
                    /\ comments'[c].post_id \in DOMAIN posts'
                    /\ comments'[c].author_id = resp'.caller
       /\ (resp'.op \in {"create_comment", "get_comments_by_post"} /\ resp'.status # HTTP_201) =>
              comments' = comments
      ]_vars

\* A comment was just stored on a post by a user who is not the post's author.
CommentStored ==
    /\ resp.op = "create_comment"
    /\ resp.status = HTTP_201
    /\ resp.body.view.id \in DOMAIN comments
    /\ posts[resp.target].author_id # resp.caller

\* C10: a logout leaves the tables, the signing key and the issued tokens
\* as they were, and every issued token resolves after it to the user it
\* resolved to before it.
LogoutKeepsTokens ==
    [][resp'.op = "logout" =>
          /\ users' = users /\ posts' = posts /\ comments' = comments
          /\ \A tk \in issued :
                get_current_user(tk, users', secret_key', now') =
                    get_current_user(tk, users, secret_key, now)
      ]_vars

\* A logout was just answered while an issued token is still accepted.
LoggedOutStillAccepted ==
    /\ resp.op = "logout"
    /\ \E tk \in issued : get_current_user(tk, users, secret_key, now) # 0

\* C11: a step that answers 400, 401, 403 or 404 leaves the users, posts
\* and comments, and everything else a handler reads (the pending writes,
\* the issued tokens, the signing key, the clock, the ids drawn), as they
\* were, so that the same request in the state after it meets the state it
\* met before and is answered the same.
RefusalChangesNothing ==
    [][resp'.status \in Refusals =>
          /\ users' = users /\ posts' = posts /\ comments' = comments
          /\ txn' = txn /\ issued' = issued /\ secret_key' = secret_key
          /\ now' = now /\ uuids' = uuids
      ]_vars

\* A caller who is not the author was just refused the delete of a post
\* that has a comment; the post and the comment are still stored.
ForbiddenDeleteKeptRows ==
    /\ resp.op = "delete_post"
    /\ resp.status = HTTP_403
    /\ resp.target \in DOMAIN posts
    /\ \E c \in DOMAIN comments : comments[c].post_id = resp.target

\* C12: every stored post and every stored comment has
\* updated_at >= created_at.
UpdatedNotBeforeCreated ==
    /\ \A p \in DOMAIN posts : posts[p].updated_at >= posts[p].created_at
    /\ \A c \in DOMAIN comments : comments[c].updated_at >= comments[c].created_at

\* A post and a comment on it were both updated after the time they were
\* created at.
BothUpdatedLater ==
    \E p \in DOMAIN posts, c \in DOMAIN comments :
        /\ comments[c].post_id = p
        /\ posts[p].updated_at > posts[p].created_at
        /\ comments[c].updated_at > comments[c].created_at

\* C13: a post that stays stored keeps its author_id and created_at, and a
\* comment that stays stored keeps its post_id, author_id and created_at,
\* under its id; a post or comment comes to be stored only by the 201 step
\* of its creation, under the id the response shows, with the caller, a
\* stored user, as its author; and a profile update changes no post and no
\* comment.
RowIdentityKept ==
    [][/\ \A p \in DOMAIN posts \cap DOMAIN posts' :
             /\ posts'[p].author_id = posts[p].author_id
             /\ posts'[p].created_at = posts[p].created_at
       /\ \A c \in DOMAIN comments \cap DOMAIN comments' :
             /\ comments'[c].post_id = comments[c].post_id
             /\ comments'[c].author_id = comments[c].author_id
             /\ comments'[c].created_at = comments[c].created_at
       /\ \A p \in DOMAIN posts' \ DOMAIN posts :
             /\ resp'.op = "create_post" /\ resp'.status = HTTP_201
             /\ resp'.body.view.id = p
             /\ posts'[p].author_id = resp'.caller
             /\ resp'.caller \in DOMAIN users
       /\ \A c \in DOMAIN comments' \ DOMAIN comments :
             /\ resp'.op = "create_comment" /\ resp'.status = HTTP_201
             /\ resp'.body.view.id = c
             /\ comments'[c].author_id = resp'.caller
             /\ resp'.caller \in DOMAIN users
       /\ resp'.op = "update_user" => (posts' = posts /\ comments' = comments)
      ]_vars

\* The second user's post was just updated, later than it was created,
\* after that user changed name, and is still that user's post.
SecondUsersPostUpdated ==
    /\ resp.op = "update_post"
    /\ resp.status = HTTP_200
    /\ posts[resp.target].author_id = 2
    /\ posts[resp.target].updated_at > posts[resp.target].created_at
    /\ users[2].name \in NewNames

====
